---- MODULE Spec2Model ----
(***************************************************************************)
(* The REST backend of the YouTube companion dashboard (backend/server.js) *)
(* as a state machine: the Note collection, the EventLog collection, the   *)
(* wall clock, and the requests in flight.  An async handler is cut at its *)
(* awaits: the synchronous part that starts it, the database (or upstream) *)
(* operation, and the logEvent persistence followed by the response.       *)
(*                                                                         *)
(* Strings are sequences of one-character strings.  An optional value      *)
(* (a JSON field or query parameter that may be undefined) is <<>> when    *)
(* undefined and <<v>> when it carries v.                                  *)
(***************************************************************************)
EXTENDS Integers, Sequences, FiniteSets, TLC

VARIABLES
    clock,      \* Date.now(), in milliseconds
    notes,      \* the Note collection: _id -> document
    nextId,     \* the next ObjectId `new Note` hands out
    log,        \* the EventLog collection, in insertion order
    apiKey,     \* config.YOUTUBE_API_KEY is set
    req,        \* the requests in flight and their responses, per connection
    started,    \* how many requests have been received
    ui          \* the state of the dashboard (frontend/src/App.jsx)

vars == <<clock, notes, nextId, log, apiKey, req, started, ui>>

-----------------------------------------------------------------------------
(* Bounds of the model *)

MaxClock == 1
MaxReqs == 1
MaxNoteReqs == 2

Slots == {1, 2}

None == <<>>
Some(v) == <<v>>

VideoIds == {"v1", "v2"}

\* An id that is no ObjectId at all, and an ObjectId no note ever had.
BadId == -1
GhostId == 0

-----------------------------------------------------------------------------
(* Strings and the search filter *)

Lower(c) == IF c = "A" THEN "a" ELSE IF c = "B" THEN "b" ELSE c

\* One pattern character of a regular expression against one character,
\* under the i option: "." is the wildcard, anything else is itself.
RegexCharMatches(p, c) == p = "." \/ Lower(p) = Lower(c)

\* { $regex: pattern, $options: 'i' } and new RegExp(pattern, 'i'): the
\* pattern matches somewhere in str (unanchored).
RegexTest(pattern, str) ==
    \E i \in 0..(Len(str) - Len(pattern)) :
        \A k \in 1..Len(pattern) : RegexCharMatches(pattern[k], str[i + k])

\* A field that is missing from the document matches no regular expression.
FieldMatches(pattern, field) == field # None /\ RegexTest(pattern, field[1])

\* `if (search)`: undefined and the empty string add no filter.
HasSearch(search) == search # None /\ search[1] # <<>>

\* The query built by GET /api/notes/:videoId.
MatchesQuery(n, videoId, search) ==
    /\ n.videoId = videoId
    /\ HasSearch(search) =>
          \/ FieldMatches(search[1], n.title)
          \/ FieldMatches(search[1], n.content)
          \/ \E k \in 1..Len(n.tags) : RegexTest(search[1], n.tags[k])

-----------------------------------------------------------------------------
(* Sorting *)

\* Every order of the documents S (a set of ids of the collection coll) that
\* is descending in the field key; documents equal in key come in any order.
SortDescCreatedAt(coll, S) ==
    { q \in [1..Cardinality(S) -> S] :
        /\ \A i, j \in 1..Cardinality(S) : i # j => q[i] # q[j]
        /\ \A i, j \in 1..Cardinality(S) :
              i < j => coll[q[i]].createdAt >= coll[q[j]].createdAt }

\* Note.find(query).sort({ createdAt: -1 }) on the collection coll: the
\* possible results.
FindNotesIn(coll, videoId, search) ==
    LET S == { i \in DOMAIN coll : MatchesQuery(coll[i], videoId, search) }
    IN  { [k \in 1..Cardinality(S) |-> coll[q[k]]] : q \in SortDescCreatedAt(coll, S) }

FindNotes(videoId, search) == FindNotesIn(notes, videoId, search)

-----------------------------------------------------------------------------
(* Requests *)

Idle ==
    [op |-> "none", pc |-> "idle", vid |-> "", id |-> GhostId,
     title |-> None, content |-> None, tags |-> None, search |-> None,
     now |-> 0, doc |-> None, list |-> <<>>, entry |-> None,
     status |-> 0, body |-> [none |-> TRUE],
     appended |-> 0, logFailed |-> FALSE, seen |-> 0, upstream |-> "not called"]

Free(s) == req[s].pc \in {"idle", "done"}

\* A connection takes a new request when it is free and no lower one is.
CanStart(s) == Free(s) /\ \A t \in Slots : t < s => ~Free(t)

\* Connection s moves on to r.  Only the latest response is kept: a response
\* goes to its client when the next one is sent.
Answer(s, r) ==
    [t \in Slots |->
        IF t = s THEN r
        ELSE IF r.pc = "done" /\ req[t].pc = "done" THEN Idle ELSE req[t]]

Respond(r, status, body) ==
    [r EXCEPT !.pc = "done", !.status = status, !.body = body]

ErrorBody(msg) == [error |-> msg]

\* A step that reads the clock happens now or later: the time that passes
\* between two readings is taken when the later one is made.
Advance == clock' \in clock..MaxClock

\* new EventLog({ action, videoId, details }): the timestamp defaults to
\* Date.now() when the document is built.
NewEntry(action, videoId, details) ==
    [id |-> 0, action |-> action, videoId |-> videoId, details |-> details,
     timestamp |-> clock']

CallLogEvent(r, action, videoId, details) ==
    [r EXCEPT !.pc = "log", !.entry = Some(NewEntry(action, videoId, details))]

TypeOK ==
    /\ clock \in 0..MaxClock
    /\ nextId \in Nat \ {0}
    /\ DOMAIN notes \subseteq 1..(nextId - 1)
    /\ apiKey \in BOOLEAN
    /\ DOMAIN req = Slots
    /\ started \in Nat

-----------------------------------------------------------------------------
(* logEvent *)

\* logEvent without its try/catch: the rejection reaches the caller.
logEventRethrows(ok) == IF ok THEN "returned" ELSE "threw"

\* What the caller of logEvent sees when EventLog.create resolves (ok) or
\* rejects: the try/catch swallows the rejection.
logEvent(ok) == "returned"

\* EventLog.create called twice for one event.
PersistTwice(l, e, ok) ==
    IF ok
    THEN Append(Append(l, [e EXCEPT !.id = Len(l) + 1]), [e EXCEPT !.id = Len(l) + 2])
    ELSE l

\* A capped log: the oldest entry makes room for the new one.
PersistCapped(l, e, ok) ==
    IF ok
    THEN Append(IF Len(l) >= 50 THEN Tail(l) ELSE l, [e EXCEPT !.id = Len(l) + 1])
    ELSE l

\* EventLog.create persists the entry, or fails and persists nothing.
Persist(l, e, ok) == IF ok THEN Append(l, [e EXCEPT !.id = Len(l) + 1]) ELSE l

\* The body each handler sends after its logEvent call.
SuccessBody(r) ==
    CASE r.op = "getNotes"      -> [notes |-> r.list]
      [] r.op = "postNote"      -> [note |-> r.doc[1]]
      [] r.op = "putNote"       -> [note |-> r.doc[1]]
      [] r.op = "deleteNote"    -> [message |-> "Note deleted successfully"]
      [] r.op = "getVideo"      -> [item |-> r.vid]
      [] r.op = "getComments"   -> [items |-> r.vid]
      [] r.op = "postComment"   -> [textDisplay |-> r.title[1], authorDisplayName |-> "Demo User"]
      [] r.op = "deleteComment" -> [message |-> "Comment deleted successfully"]
      [] r.op = "putVideo"      -> [id |-> r.vid, title |-> r.title, description |-> r.content]

\* The message of each handler's catch block.
FailureBody(r) ==
    CASE r.op = "getNotes"      -> ErrorBody("Failed to fetch notes")
      [] r.op = "postNote"      -> ErrorBody("Failed to create note")
      [] r.op = "putNote"       -> ErrorBody("Failed to update note")
      [] r.op = "deleteNote"    -> ErrorBody("Failed to delete note")
      [] r.op = "getLogs"       -> ErrorBody("Failed to fetch logs")
      [] r.op = "getVideo"      -> ErrorBody("Failed to fetch video data")
      [] r.op = "getComments"   -> ErrorBody("Failed to fetch comments")
      [] r.op = "postComment"   -> ErrorBody("Failed to add comment")
      [] r.op = "deleteComment" -> ErrorBody("Failed to delete comment")
      [] r.op = "putVideo"      -> ErrorBody("Failed to update video")

\* `await logEvent(...)` resumes: the entry is persisted or not, and the
\* handler answers (its catch block, had logEvent thrown).
LogStep(s, ok) ==
    /\ req[s].pc = "log"
    /\ log' = Persist(log, req[s].entry[1], ok)
    /\ req' = Answer(s,
          LET r == [req[s] EXCEPT !.appended = @ + (Len(log') - Len(log)),
                             !.logFailed = ~ok]
          IN  IF logEvent(ok) = "threw"
              THEN Respond(r, 500, FailureBody(r))
              ELSE Respond(r, 200, SuccessBody(r)))
    /\ UNCHANGED <<clock, notes, nextId, apiKey, started>>

-----------------------------------------------------------------------------
(* Notes CRUD routes *)

\* GET /api/notes/:videoId?search=
GetNotes(s, videoId, search, dbOk) ==
    /\ CanStart(s)
    /\ Advance
    /\ LET r == [Idle EXCEPT !.op = "getNotes", !.vid = videoId, !.search = search]
       IN    IF dbOk
             THEN \E result \in FindNotes(videoId, search) :
                    req' = Answer(s,
                        CallLogEvent([r EXCEPT !.list = result],
                                     "notes_viewed", videoId, [search |-> search]))
             ELSE req' = Answer(s, Respond(r, 500, FailureBody(r)))
    /\ started' = started + 1
    /\ UNCHANGED <<notes, nextId, log, apiKey>>

\* new Note({ videoId, title, content, tags: tags || [] }): a fresh _id, and
\* the two timestamps from their own Date.now defaults, createdAt first.
NewNote(id, videoId, title, content, tags, t1, t2) ==
    [id |-> id, videoId |-> videoId, title |-> title, content |-> content,
     tags |-> IF tags = None THEN <<>> ELSE tags[1],
     createdAt |-> t1, updatedAt |-> t2]

\* POST /api/notes, up to `await note.save()`.  The clock may advance
\* between the two defaults.
PostNote(s, videoId, title, content, tags) ==
    /\ CanStart(s)
    /\ \E t1 \in clock..MaxClock :
          /\ clock' \in t1..MaxClock
          /\ req' = Answer(s,
                [Idle EXCEPT !.op = "postNote", !.pc = "db", !.vid = videoId,
                             !.id = nextId, !.title = title, !.content = content,
                             !.tags = tags,
                             !.doc = Some(NewNote(nextId, videoId, title, content,
                                                  tags, t1, clock'))])
    /\ nextId' = nextId + 1
    /\ started' = started + 1
    /\ UNCHANGED <<notes, log, apiKey>>

Insert(coll, d) ==
    [i \in DOMAIN coll \cup {d.id} |-> IF i = d.id THEN d ELSE coll[i]]

\* A create that logs the note whether or not it was saved.
PostSaveLogsAnyway(s, dbOk) ==
    /\ req[s].pc = "db"
    /\ req[s].op = "postNote"
    /\ Advance
    /\ notes' = IF dbOk THEN Insert(notes, req[s].doc[1]) ELSE notes
    /\ req' = Answer(s,
          CallLogEvent(req[s], "note_created", req[s].vid, [noteId |-> req[s].id]))
    /\ UNCHANGED <<nextId, log, apiKey, started>>

\* note.save() resolves or rejects; then logEvent('note_created', ...).
PostSave(s, dbOk) ==
    /\ req[s].pc = "db"
    /\ req[s].op = "postNote"
    /\ Advance
    /\    IF dbOk
          THEN /\ notes' = Insert(notes, req[s].doc[1])
               /\ req' = Answer(s,
                     CallLogEvent(req[s], "note_created", req[s].vid, [noteId |-> req[s].id]))
          ELSE /\ notes' = notes
               /\ req' = Answer(s, Respond(req[s], 500, FailureBody(req[s])))
    /\ UNCHANGED <<nextId, log, apiKey, started>>

\* PUT /api/notes/:id, up to the await: `new Date()` is taken here.
PutNote(s, id, title, content, tags) ==
    /\ CanStart(s)
    /\ Advance
    /\ req' = Answer(s,
          [Idle EXCEPT !.op = "putNote", !.pc = "db", !.id = id, !.title = title,
                       !.content = content, !.tags = tags, !.now = clock'])
    /\ started' = started + 1
    /\ UNCHANGED <<notes, nextId, log, apiKey>>

\* An update that stamps createdAt as well.
ApplyUpdateStampsBoth(n, title, content, tags, now) ==
    [n EXCEPT !.title = IF title = None THEN @ ELSE title,
              !.content = IF content = None THEN @ ELSE content,
              !.tags = IF tags = None THEN @ ELSE tags[1],
              !.createdAt = now,
              !.updatedAt = now]

\* The update { title, content, tags, updatedAt } applied to a document:
\* a key whose value is undefined is dropped from the update.
ApplyUpdate(n, title, content, tags, now) ==
    [n EXCEPT !.title = IF title = None THEN @ ELSE title,
              !.content = IF content = None THEN @ ELSE content,
              !.tags = IF tags = None THEN @ ELSE tags[1],
              !.updatedAt = now]

\* Note.findByIdAndUpdate(id, ..., { new: true }) runs: a cast error for a
\* malformed id, a store failure, null, or the updated document.
PutUpdate(s, dbOk) ==
    /\ req[s].pc = "db"
    /\ req[s].op = "putNote"
    /\ Advance
    /\ LET r == req[s] IN
          IF r.id = BadId \/ ~dbOk
          THEN /\ notes' = notes
               /\ req' = Answer(s, Respond(r, 500, FailureBody(r)))
          ELSE IF r.id \notin DOMAIN notes
          THEN /\ notes' = notes
               /\ req' = Answer(s, Respond(r, 404, ErrorBody("Note not found")))
          ELSE LET n == ApplyUpdate(notes[r.id], r.title, r.content, r.tags, r.now)
               IN  /\ notes' = [notes EXCEPT ![r.id] = n]
                   /\ req' = Answer(s,
                         CallLogEvent([r EXCEPT !.doc = Some(n)],
                                      "note_updated", n.videoId, [noteId |-> r.id]))
    /\ UNCHANGED <<nextId, log, apiKey, started>>

\* A delete that finds the document and leaves it in the collection.
RemoveLeavesNote(coll, id) == coll

Remove(coll, id) == [i \in DOMAIN coll \ {id} |-> coll[i]]

\* DELETE /api/notes/:id: Note.findByIdAndDelete(id) and what follows it.
DeleteNote(s, id, dbOk) ==
    /\ CanStart(s)
    /\ Advance
    /\ LET r == [Idle EXCEPT !.op = "deleteNote", !.id = id] IN
          IF id = BadId \/ ~dbOk
          THEN /\ notes' = notes
               /\ req' = Answer(s, Respond(r, 500, FailureBody(r)))
          ELSE IF id \notin DOMAIN notes
          THEN /\ notes' = notes
               /\ req' = Answer(s, Respond(r, 404, ErrorBody("Note not found")))
          ELSE /\ notes' = Remove(notes, id)
               /\ req' = Answer(s,
                     CallLogEvent([r EXCEPT !.doc = Some(notes[id])],
                                  "note_deleted", notes[id].videoId, [noteId |-> id]))
    /\ started' = started + 1
    /\ UNCHANGED <<nextId, log, apiKey>>

-----------------------------------------------------------------------------
(* YouTube routes *)

NoDetails == [none |-> TRUE]

\* A handler that logs the view before it looks at the items.
GetVideoLogsFirst(s, videoId, upstream) ==
    /\ CanStart(s)
    /\ Advance
    /\ LET r == [Idle EXCEPT !.op = "getVideo", !.vid = videoId] IN
       IF ~apiKey
       THEN req' = Answer(s,
                Respond(r, 500, ErrorBody("YouTube API key not configured")))
       ELSE   LET q == [r EXCEPT !.upstream = upstream] IN
              req' = Answer(s,
                  IF upstream = "throws"
                  THEN Respond(q, 500, FailureBody(q))
                  ELSE CallLogEvent(q, "video_viewed", videoId, NoDetails))
    /\ started' = started + 1
    /\ UNCHANGED <<notes, nextId, log, apiKey>>

\* GET /api/video/:videoId: the key check, the upstream call (it throws,
\* or reports no item, or one), then logEvent('video_viewed', videoId).
GetVideo(s, videoId, upstream) ==
    /\ CanStart(s)
    /\ Advance
    /\ LET r == [Idle EXCEPT !.op = "getVideo", !.vid = videoId] IN
       IF ~apiKey
       THEN req' = Answer(s,
                Respond(r, 500, ErrorBody("YouTube API key not configured")))
       ELSE   LET q == [r EXCEPT !.upstream = upstream] IN
              req' = Answer(s,
                  CASE upstream = "throws"   -> Respond(q, 500, FailureBody(q))
                    [] upstream = "no items" -> Respond(q, 404, ErrorBody("Video not found"))
                    [] upstream = "one item" -> CallLogEvent(q, "video_viewed", videoId, NoDetails))
    /\ started' = started + 1
    /\ UNCHANGED <<notes, nextId, log, apiKey>>

\* GET /api/comments/:videoId
GetComments(s, videoId, upstream) ==
    /\ CanStart(s)
    /\ Advance
    /\ LET r == [Idle EXCEPT !.op = "getComments", !.vid = videoId,
                             !.upstream = upstream] IN
          req' = Answer(s,
              IF upstream = "throws"
              THEN Respond(r, 500, FailureBody(r))
              ELSE CallLogEvent(r, "comments_viewed", videoId, NoDetails))
    /\ started' = started + 1
    /\ UNCHANGED <<notes, nextId, log, apiKey>>

\* POST /api/comments/:videoId (simulated)
PostComment(s, videoId, text) ==
    /\ CanStart(s)
    /\ Advance
    /\ req' = Answer(s,
          CallLogEvent([Idle EXCEPT !.op = "postComment", !.vid = videoId, !.title = text],
                       "comment_added", videoId, [text |-> text]))
    /\ started' = started + 1
    /\ UNCHANGED <<notes, nextId, log, apiKey>>

\* A comment delete that empties the Note collection.
DeleteCommentDropsNotes(s, videoId, commentId) ==
    /\ CanStart(s)
    /\ Advance
    /\ req' = Answer(s,
          CallLogEvent([Idle EXCEPT !.op = "deleteComment", !.vid = videoId],
                       "comment_deleted", videoId, [commentId |-> commentId]))
    /\ started' = started + 1
    /\ notes' = [i \in {} |-> 0]
    /\ UNCHANGED <<nextId, log, apiKey>>

\* DELETE /api/comments/:videoId/:commentId (simulated)
DeleteComment(s, videoId, commentId) ==
    /\ CanStart(s)
    /\ Advance
    /\ req' = Answer(s,
          CallLogEvent([Idle EXCEPT !.op = "deleteComment", !.vid = videoId],
                       "comment_deleted", videoId, [commentId |-> commentId]))
    /\ started' = started + 1
    /\ UNCHANGED <<notes, nextId, log, apiKey>>

\* PUT /api/video/:videoId (simulated)
PutVideo(s, videoId, title, description) ==
    /\ CanStart(s)
    /\ Advance
    /\ req' = Answer(s,
          CallLogEvent([Idle EXCEPT !.op = "putVideo", !.vid = videoId,
                                    !.title = title, !.content = description],
                       "video_updated", videoId,
                       [title |-> title, description |-> description]))
    /\ started' = started + 1
    /\ UNCHANGED <<notes, nextId, log, apiKey>>

-----------------------------------------------------------------------------
(* Event logs route *)

LogLimit == 50

\* Entry i of the log sorts before entry j: a later timestamp first; entries
\* of one timestamp in insertion order, or (rev) against it.
LogBefore(i, j, rev) ==
    \/ log[i].timestamp > log[j].timestamp
    \/ /\ log[i].timestamp = log[j].timestamp
       /\ IF rev THEN i > j ELSE i < j

\* sort({ timestamp: -1 }) of the entries S.
SortLogs(S, rev) ==
    LET rank == [i \in S |-> Cardinality({ j \in S : LogBefore(j, i, rev) }) + 1]
    IN  [k \in 1..Cardinality(S) |-> log[CHOOSE i \in S : rank[i] = k]]

\* A query that forgets its limit.
LimitOff(q, n) == q

\* limit(n)
Limit(q, n) == SubSeq(q, 1, IF Len(q) < n THEN Len(q) ELSE n)

\* EventLog.find({ videoId }).sort({ timestamp: -1 }).limit(50)
FindLogs(videoId) ==
    LET S == { i \in 1..Len(log) : log[i].videoId = videoId }
    IN  { Limit(SortLogs(S, rev), LogLimit) : rev \in BOOLEAN }

\* GET /api/logs/:videoId
GetLogs(s, videoId, dbOk) ==
    /\ CanStart(s)
    /\ LET r == [Idle EXCEPT !.op = "getLogs", !.vid = videoId, !.seen = Len(log)] IN
          IF dbOk
          THEN \E result \in FindLogs(videoId) :
                 req' = Answer(s,
                     Respond([r EXCEPT !.list = result], 200, [logs |-> result]))
          ELSE req' = Answer(s, Respond(r, 500, FailureBody(r)))
    /\ started' = started + 1
    /\ UNCHANGED <<clock, notes, nextId, log, apiKey>>

-----------------------------------------------------------------------------
(* The dashboard *)

\* The useState values of App once a video is loaded, and what the page has
\* in flight: the pending setTimeout timers (each with the loadNotes closure
\* it will run), the timeoutId the search effect's cleanup holds, the axios
\* call awaited on each connection, the loadNotes call a handler is about to
\* make, the number of notes requests issued, which of them the displayed
\* list came from, and what the most recently issued one returned.
UiInit ==
    [videoId |-> "v1", searchTerm |-> <<>>, notes |-> <<>>, alert |-> "",
     timers |-> {}, effect |-> None, calls |-> [s \in Slots |-> None],
     todo |-> None, issued |-> 0, shown |-> 0, latest |-> None]

\* String.prototype.trim, for the space character.
RECURSIVE TrimLeft(_)
TrimLeft(str) == IF str # <<>> /\ Head(str) = " " THEN TrimLeft(Tail(str)) ELSE str

RECURSIVE TrimRight(_)
TrimRight(str) ==
    IF str # <<>> /\ str[Len(str)] = " "
    THEN TrimRight(SubSeq(str, 1, Len(str) - 1))
    ELSE str

Trim(str) == TrimRight(TrimLeft(str))

\* !str.trim()
Blank(str) == Trim(str) = <<>>

\* str.split(',')
RECURSIVE Split(_)
Split(str) ==
    IF \E i \in 1..Len(str) : str[i] = ","
    THEN LET i == CHOOSE i \in 1..Len(str) :
                     str[i] = "," /\ \A j \in 1..(i - 1) : str[j] # ","
         IN  <<SubSeq(str, 1, i - 1)>> \o Split(SubSeq(str, i + 1, Len(str)))
    ELSE <<str>>

\* noteForm.tags.split(',').map(tag => tag.trim()).filter(Boolean)
ParseTags(str) ==
    LET parts == Split(str)
        trimmed == [k \in 1..Len(parts) |-> Trim(parts[k])]
    IN  SelectSeq(trimmed, LAMBDA p : p # <<>>)

\* params: searchTerm ? { search: searchTerm } : {}
SearchParam(term) == IF term = <<>> THEN None ELSE Some(term)

\* The search effect runs again after videoId or searchTerm changed: the
\* cleanup of its last run clears the timer that run set, then, with a
\* videoId, a new 300 ms timer is set for the loadNotes of this render.
Rearm(u, vid, term) ==
    LET kept == { t \in u.timers : u.effect = None \/ t.id # u.effect[1] }
        id == CHOOSE i \in 1..(Cardinality(kept) + 1) : \A t \in kept : t.id # i
    IN  IF vid # ""
        THEN [u EXCEPT !.timers = kept \cup {[id |-> id, vid |-> vid, term |-> term]},
                       !.effect = Some(id)]
        ELSE [u EXCEPT !.timers = kept, !.effect = None]

\* onChange of the search box: setSearchTerm
UiType(term) ==
    /\ term # ui.searchTerm
    /\ ui' = Rearm([ui EXCEPT !.searchTerm = term], ui.videoId, term)
    /\ UNCHANGED <<clock, notes, nextId, log, apiKey, req, started>>

\* onChange of the video id box: setVideoId
UiSetVideo(v) ==
    /\ v # ui.videoId
    /\ ui' = Rearm([ui EXCEPT !.videoId = v], v, ui.searchTerm)
    /\ UNCHANGED <<clock, notes, nextId, log, apiKey, req, started>>

\* loadNotes sends its GET on connection s: one more notes request issued.
IssueLoad(u, s, vid, term) ==
    [u EXCEPT !.calls[s] = Some([kind |-> "loadNotes", seq |-> u.issued + 1,
                                 vid |-> vid, term |-> term]),
              !.issued = @ + 1,
              !.latest = None]

\* A debounce timer fires and runs its loadNotes.
UiTimerFires(s) ==
    \E t \in ui.timers :
        /\ GetNotes(s, t.vid, SearchParam(t.term), TRUE)
        /\ ui' = IssueLoad([ui EXCEPT !.timers = @ \ {t}], s, t.vid, t.term)

\* `await loadNotes()` at the end of saveNote or deleteNote.
UiLoadNotes(s) ==
    /\ ui.todo # None
    /\ GetNotes(s, ui.todo[1].vid, SearchParam(ui.todo[1].term), TRUE)
    /\ ui' = IssueLoad([ui EXCEPT !.todo = None], s, ui.todo[1].vid, ui.todo[1].term)

\* The axios call a handler of this render awaits on connection s.
Await(u, s, kind) ==
    [u EXCEPT !.calls[s] = Some([kind |-> kind, seq |-> 0,
                                 vid |-> u.videoId, term |-> u.searchTerm])]

\* A saveNote that sends the form without looking at it.
UiSaveNoteUnchecked(s, title, content, tags, editing) ==
    /\ IF editing = None
       THEN PostNote(s, ui.videoId, Some(title), Some(content), Some(ParseTags(tags)))
       ELSE PutNote(s, editing[1], Some(title), Some(content), Some(ParseTags(tags)))
    /\ ui' = Await(ui, s, "saveNote")

\* saveNote with the note form as filled in; editing is the note whose Edit
\* button was clicked, if one was.
UiSaveNote(s, title, content, tags, editing) ==
    IF Blank(title) \/ Blank(content)
    THEN /\ ui' = [ui EXCEPT !.alert = "Please fill in title and content"]
         /\ UNCHANGED <<clock, notes, nextId, log, apiKey, req, started>>
    ELSE /\ IF editing = None
            THEN PostNote(s, ui.videoId, Some(title), Some(content), Some(ParseTags(tags)))
            ELSE PutNote(s, editing[1], Some(title), Some(content), Some(ParseTags(tags)))
         /\ ui' = Await(ui, s, "saveNote")

\* deleteNote(note._id) of a displayed note, confirmed.
UiDeleteNote(s, id) ==
    /\ id \in { ui.notes[k].id : k \in 1..Len(ui.notes) }
    /\ DeleteNote(s, id, TRUE)
    /\ ui' = Await(ui, s, "deleteNote")

\* addComment with the comment box as filled in.
UiAddComment(s, text) ==
    IF Blank(text)
    THEN UNCHANGED vars
    ELSE /\ PostComment(s, ui.videoId, Some(text))
         /\ ui' = Await(ui, s, "addComment")

\* updateVideo with the video form as filled in.
UiUpdateVideo(s, title, description) ==
    IF Blank(title)
    THEN /\ ui' = [ui EXCEPT !.alert = "Title cannot be empty"]
         /\ UNCHANGED <<clock, notes, nextId, log, apiKey, req, started>>
    ELSE /\ PutVideo(s, ui.videoId, Some(title), Some(description))
         /\ ui' = Await(ui, s, "updateVideo")

\* The page after the awaited call of connection s settled with response r:
\* loadNotes shows the list it got; saveNote and deleteNote go on to their
\* loadNotes; the catch blocks alert (loadNotes only logs to the console).
Settle(u, s, r) ==
    LET c == u.calls[s][1]
        v == [u EXCEPT !.calls[s] = None]
    IN  CASE c.kind = "loadNotes" ->
                IF r.status = 200
                THEN [v EXCEPT !.notes = r.list, !.shown = c.seq,
                               !.latest = IF c.seq = u.issued THEN Some(r.list) ELSE @]
                ELSE v
          [] c.kind = "saveNote" ->
                IF r.status = 200
                THEN [v EXCEPT !.todo = Some([vid |-> c.vid, term |-> c.term])]
                ELSE [v EXCEPT !.alert = "Failed to save note"]
          [] c.kind = "deleteNote" ->
                IF r.status = 200
                THEN [v EXCEPT !.todo = Some([vid |-> c.vid, term |-> c.term])]
                ELSE [v EXCEPT !.alert = "Failed to delete note"]
          [] c.kind = "addComment" ->
                [v EXCEPT !.alert =
                    IF r.status = 200
                    THEN "Comment added successfully! (Demo mode - OAuth2 required for real posting)"
                    ELSE "Failed to add comment"]
          [] c.kind = "updateVideo" ->
                [v EXCEPT !.alert =
                    IF r.status = 200
                    THEN "Video updated successfully! (Demo mode - OAuth2 required for real editing)"
                    ELSE "Failed to update video"]

\* The response of connection s reaches its client: the dashboard, or a
\* client that is not the dashboard.
Deliver(s) ==
    /\ req[s].pc = "done"
    /\ ui' = IF ui.calls[s] = None THEN ui ELSE Settle(ui, s, req[s])
    /\ req' = [req EXCEPT ![s] = Idle]
    /\ UNCHANGED <<clock, notes, nextId, log, apiKey, started>>

\* No response is on its way, and no handler of the page is in mid-run.
Quiet == ui.todo = None /\ \A s \in Slots : req[s].pc # "done"

-----------------------------------------------------------------------------
(* The database the server starts on *)

NoNotes == [i \in {} |-> 0]

\* Two notes of one video that earlier requests created in the same
\* millisecond.
TwoNotes ==
    Insert(Insert(NoNotes, NewNote(1, "v1", Some(<<"a">>), Some(<<"c">>), None, 0, 0)),
           NewNote(2, "v1", Some(<<"c">>), Some(<<"A", "b">>),
                   Some(<< <<"b">>, <<"b">> >>), 0, 0))

\* The server starts at time 0 on the collections earlier runs left: no
\* note, or the two above.
Init ==
    /\ clock = 0
    /\ notes \in {NoNotes, TwoNotes}
    /\ nextId = Cardinality(DOMAIN notes) + 1
    /\ log = <<>>
    /\ apiKey \in BOOLEAN
    /\ req = [s \in Slots |-> Idle]
    /\ started = 0
    /\ ui = UiInit

\* An event log that holds one entry more than a query returns, written
\* one millisecond apart before the server started.
LogFill == LogLimit + 1

OldEntry(i) ==
    [id |-> i, action |-> "comment_deleted", videoId |-> "v1",
     details |-> [commentId |-> "c1"], timestamp |-> i - LogFill]

InitLogs ==
    /\ clock = 0
    /\ notes = NoNotes
    /\ nextId = 1
    /\ log = [i \in 1..LogFill |-> OldEntry(i)]
    /\ apiKey = TRUE
    /\ req = [s \in Slots |-> Idle]
    /\ started = 0
    /\ ui = UiInit

-----------------------------------------------------------------------------
(* The requests clients send *)

\* The ids a client may name: those handed out so far, and two that never were.
KnownIds == {BadId, GhostId} \cup 1..(nextId - 1)

\* What a client of the whole API sends.
ApiRequest(s) ==
    \/ \E v \in VideoIds :
          \/ \E dbOk \in BOOLEAN : GetNotes(s, v, None, dbOk)
          \/ PostNote(s, v, Some(<<"a">>), Some(<<"c">>), None)
          \/ \E upstream \in {"throws", "no items", "one item"} : GetVideo(s, v, upstream)
          \/ \E upstream \in {"throws", "responds"} : GetComments(s, v, upstream)
          \/ PostComment(s, v, Some(<<"a">>))
          \/ DeleteComment(s, v, "c1")
          \/ PutVideo(s, v, Some(<<"a">>), Some(<<"b">>))
          \/ \E dbOk \in BOOLEAN : GetLogs(s, v, dbOk)
    \/ \E id \in KnownIds, dbOk \in BOOLEAN :
          \/ PutNote(s, id, Some(<<"B">>), Some(<<"c">>), Some(<<>>))
          \/ DeleteNote(s, id, dbOk)

Next ==
    \/ \E s \in Slots :
          \/ \E ok \in BOOLEAN : LogStep(s, ok) /\ UNCHANGED ui
          \/ \E dbOk \in BOOLEAN : PostSave(s, dbOk) /\ UNCHANGED ui
          \/ \E dbOk \in BOOLEAN : PutUpdate(s, dbOk) /\ UNCHANGED ui
          \/ started < MaxReqs /\ ApiRequest(s) /\ UNCHANGED ui

Spec == Init /\ [][Next]_vars

SpecLogs == InitLogs /\ [][Next]_vars

\* The primary operation of a request completes: the Note collection answers.
Primary ==
    \E s \in Slots, dbOk \in BOOLEAN :
        (PostSave(s, dbOk) \/ PutUpdate(s, dbOk)) /\ UNCHANGED ui

\* The server with a Note collection that answers every operation in the
\* end, and an EventLog collection that answers when it does: nothing in
\* server.js bounds the time EventLog.create takes.
SpecLive == Init /\ [][Next]_vars /\ WF_vars(Primary)

-----------------------------------------------------------------------------
(* The notes routes alone, with a store and a log that do not fail *)

\* The bodies of PUT /api/notes/:id: all three fields, or the title left out.
PutBodies ==
    { <<Some(<<"B">>), Some(<<"a">>), Some(<<>>)>>,
      <<None, Some(<<"c">>), Some(<< <<"a">> >>)>> }

\* A term no note holds as a substring, and one that "A", "a" hold.
Searches == {None, Some(<<".">>), Some(<<"a">>)}

NotesRequest(s) ==
    \/ \E v \in VideoIds :
          \/ \E search \in Searches : GetNotes(s, v, search, TRUE)
          \/ PostNote(s, v, Some(<<"a">>), Some(<<"c">>), None)
    \/ \E id \in KnownIds :
          \/ \E b \in PutBodies : PutNote(s, id, b[1], b[2], b[3])
          \/ DeleteNote(s, id, TRUE)

NextNotes ==
    \/ \E s \in Slots :
          \/ LogStep(s, TRUE) /\ UNCHANGED ui
          \/ PostSave(s, TRUE) /\ UNCHANGED ui
          \/ PutUpdate(s, TRUE) /\ UNCHANGED ui
          \/ started < MaxNoteReqs /\ NotesRequest(s) /\ UNCHANGED ui

InitNotes == Init /\ apiKey

SpecNotes == InitNotes /\ [][NextNotes]_vars

-----------------------------------------------------------------------------
(* The forms of the dashboard, and a client that is not the dashboard *)

MaxFormReqs == 2

\* The note form: filled in, with a title of one space, with no content.
NoteForms ==
    { <<(<<"a">>), (<<"c">>), (<<"b", ",", " ", ",", "a">>)>>,
      <<(<<" ">>), (<<"c">>), (<<>>)>>,
      <<(<<"a">>), (<<>>), (<<>>)>> }

\* The title of the video form and the text of the comment box.
Texts == { <<>>, <<" ">>, <<"a">> }

\* What the user of the dashboard does with its forms.
FormsRequest(s) ==
    \/ \E f \in NoteForms :
          \E editing \in {None} \cup { Some(ui.notes[k].id) : k \in 1..Len(ui.notes) } :
             UiSaveNote(s, f[1], f[2], f[3], editing)
    \/ \E text \in Texts : UiAddComment(s, text)
    \/ \E title \in Texts : UiUpdateVideo(s, title, <<"b">>)

\* Requests with an empty or blank field, sent to the routes directly.
DirectRequest(s) ==
    \/ PostNote(s, "v1", Some(<<>>), Some(<<" ">>), None)
    \/ \E id \in DOMAIN notes : PutNote(s, id, Some(<<" ">>), Some(<<>>), None)
    \/ PutVideo(s, "v1", Some(<<>>), Some(<<"b">>))
    \/ PostComment(s, "v1", Some(<<>>))

NextForms ==
    \/ \E s \in Slots :
          \/ Deliver(s)
          \/ UiLoadNotes(s)
          \/ Quiet /\ LogStep(s, TRUE) /\ UNCHANGED ui
          \/ Quiet /\ PostSave(s, TRUE) /\ UNCHANGED ui
          \/ Quiet /\ PutUpdate(s, TRUE) /\ UNCHANGED ui
          \/ Quiet /\ started < MaxFormReqs /\ FormsRequest(s)
          \/ Quiet /\ started < MaxFormReqs /\ DirectRequest(s) /\ UNCHANGED ui

\* The page shows the notes of its video as the store holds them; the
\* server has been up for a while.
InitForms ==
    /\ clock = MaxClock
    /\ notes \in {NoNotes, TwoNotes}
    /\ nextId = Cardinality(DOMAIN notes) + 1
    /\ log = <<>>
    /\ apiKey = TRUE
    /\ req = [s \in Slots |-> Idle]
    /\ started = 0
    /\ \E q \in FindNotesIn(notes, "v1", None) : ui = [UiInit EXCEPT !.notes = q]

SpecForms == InitForms /\ [][NextForms]_vars

-----------------------------------------------------------------------------
(* The notes panel of the dashboard: search, save, delete, reload *)

MaxSearchReqs == 2

\* What the search box may hold: nothing, or a term that the content and
\* the tags of one stored note hold.
Terms == { <<>>, <<"b">> }

PanelRequest(s) ==
    \/ UiTimerFires(s)
    \/ \E id \in DOMAIN notes : UiDeleteNote(s, id)
    \/ UiSaveNote(s, <<"a">>, <<"c">>, <<"b">>, None)

NextSearch ==
    \/ \E s \in Slots :
          \/ Deliver(s)
          \/ UiLoadNotes(s)
          \/ Quiet /\ LogStep(s, TRUE) /\ UNCHANGED ui
          \/ Quiet /\ PostSave(s, TRUE) /\ UNCHANGED ui
          \/ Quiet /\ started < MaxSearchReqs /\ PanelRequest(s)
    \/ \E term \in Terms : Quiet /\ UiType(term)
    \/ \E v \in VideoIds : Quiet /\ UiSetVideo(v)

SpecSearch == InitForms /\ [][NextSearch]_vars

-----------------------------------------------------------------------------
(* Updates and deletes of the stored notes, racing *)

MaxRaceReqs == 3

RaceRequest(s) ==
    \E id \in DOMAIN TwoNotes :
        \/ DeleteNote(s, id, TRUE)
        \/ PutNote(s, id, Some(<<"B">>), Some(<<"c">>), Some(<<>>))

NextRace ==
    \/ \E s \in Slots :
          \/ \E ok \in BOOLEAN : LogStep(s, ok) /\ UNCHANGED ui
          \/ PutUpdate(s, TRUE) /\ UNCHANGED ui
          \/ started < MaxRaceReqs /\ RaceRequest(s) /\ UNCHANGED ui

InitRace == Init /\ apiKey /\ notes = TwoNotes

SpecRace == InitRace /\ [][NextRace]_vars

-----------------------------------------------------------------------------
(* Steps of the handlers, as the properties below name them *)

\* Connection s receives a request for op in this step.
Starts(s, op) == started' = started + 1 /\ CanStart(s) /\ req'[s].op = op

\* The database operation of the op request of connection s runs in this step.
DbStep(s, op) == req[s].pc = "db" /\ req[s].op = op /\ req'[s].pc # "db"

\* logEvent of the request of connection s finishes in this step.
Logs(s) == req[s].pc = "log" /\ req'[s].pc = "done"

Ids(q) == { q[k].id : k \in 1..Len(q) }

IdSeq(q) == [k \in 1..Len(q) |-> q[k].id]

\* term is a substring of str, letter case apart.
Contains(str, term) ==
    \E i \in 0..(Len(str) - Len(term)) :
        \A k \in 1..Len(term) : Lower(term[k]) = Lower(str[i + k])

ContainsTerm(n, term) ==
    \/ n.title # None /\ Contains(n.title[1], term)
    \/ n.content # None /\ Contains(n.content[1], term)
    \/ \E k \in 1..Len(n.tags) : Contains(n.tags[k], term)

-----------------------------------------------------------------------------
(* C1.  A search with a non-empty term answers exactly the notes of the    *)
(* video whose title, content or some tag holds the term as a literal,     *)
(* case-insensitive substring.                                             *)
C1_SearchIsLiteralSubstring ==
    [][\A s \in Slots :
          (Starts(s, "getNotes") /\ req'[s].pc = "log" /\ HasSearch(req'[s].search)) =>
             /\ \A k \in 1..Len(req'[s].list) :
                   req'[s].list[k] = notes[req'[s].list[k].id]
             /\ Ids(req'[s].list) =
                   { i \in DOMAIN notes :
                        /\ notes[i].videoId = req'[s].vid
                        /\ ContainsTerm(notes[i], req'[s].search[1]) }]_vars

(* C2.  A find without a search term answers all the notes of the video    *)
(* and only those, in descending createdAt order, and an update changes    *)
(* no createdAt, so the orders a find may answer in are the same before    *)
(* and after it.                                                           *)
C2_FindAllNewestFirst ==
    [][/\ \A s \in Slots :
             (Starts(s, "getNotes") /\ req'[s].pc = "log" /\ ~HasSearch(req'[s].search)) =>
                LET q == req'[s].list IN
                /\ Ids(q) = { i \in DOMAIN notes : notes[i].videoId = req'[s].vid }
                /\ Len(q) = Cardinality(Ids(q))
                /\ \A k \in 1..Len(q) : q[k] = notes[q[k].id]
                /\ \A i, j \in 1..Len(q) : i < j => q[i].createdAt >= q[j].createdAt
       /\ \A s \in Slots :
             (DbStep(s, "putNote") /\ req'[s].pc = "log") =>
                \A v \in VideoIds :
                   { IdSeq(q) : q \in FindNotesIn(notes', v, None) }
                      = { IdSeq(q) : q \in FindNotesIn(notes, v, None) }]_vars

\* A find answers two notes, one of them updated before.
C2_Witness ==
    \E s \in Slots :
        /\ req[s].op = "getNotes" /\ req[s].pc = "done" /\ req[s].status = 200
        /\ ~HasSearch(req[s].search)
        /\ Len(req[s].list) >= 2
        /\ \E k \in 1..Len(req[s].list) : req[s].list[k].updatedAt > req[s].list[k].createdAt

(* C3.  A successful PUT leaves the note with exactly the title, content   *)
(* and tags of the request, a field the request omits included, and        *)
(* answers the updated record.                                             *)
C3_PutReplacesWholesale ==
    [][\A s \in Slots :
          (DbStep(s, "putNote") /\ req'[s].pc = "log") =>
             LET r == req[s]
                 n == notes'[r.id]
             IN  /\ n.title = r.title
                 /\ n.content = r.content
                 /\ n.tags = IF r.tags = None THEN <<>> ELSE r.tags[1]
                 /\ req'[s].doc = Some(n)]_vars

(* C4.  updatedAt >= createdAt in every stored note; an update never       *)
(* lowers updatedAt and never changes createdAt.                           *)
C4_TimestampsMonotonic ==
    /\ [](\A i \in DOMAIN notes : notes[i].updatedAt >= notes[i].createdAt)
    /\ [][\A i \in DOMAIN notes \cap DOMAIN notes' :
             /\ notes'[i].updatedAt >= notes[i].updatedAt
             /\ notes'[i].createdAt = notes[i].createdAt]_vars

(* C5.  DELETE or PUT of an id that resolves to no note answers 404,       *)
(* changes no note and logs nothing.                                       *)
C5_MissingIdIs404 ==
    [][\A s \in Slots :
          (/\ DbStep(s, "putNote") \/ Starts(s, "deleteNote")
           /\ req'[s].id \notin DOMAIN notes) =>
             /\ req'[s].pc = "done"
             /\ req'[s].status = 404
             /\ notes' = notes
             /\ log' = log]_vars

\* The action tag each logged route passes to logEvent.
Tag(op) ==
    CASE op = "postNote"    -> "note_created"
      [] op = "putNote"     -> "note_updated"
      [] op = "deleteNote"  -> "note_deleted"
      [] op = "getNotes"    -> "notes_viewed"
      [] op = "getVideo"    -> "video_viewed"
      [] op = "getComments" -> "comments_viewed"

Viewed == {"postNote", "putNote", "deleteNote", "getNotes", "getVideo", "getComments"}

\* The video a request acted on: that of the stored note for an update or a
\* delete, that of the request otherwise.
ActedOn(r) == IF r.op \in {"putNote", "deleteNote"} THEN r.doc[1].videoId ELSE r.vid

Succeeded(s) == req[s].pc = "done" /\ req[s].status = 200

InLog(e) == \E i \in 1..Len(log) : log[i] = [e EXCEPT !.id = i]

(* C6.  Every successful create, update, delete, find, video view and      *)
(* comment view has appended exactly one entry, with its action tag and    *)
(* the videoId it acted on; no operation appends two.                      *)
C6_OneEntryPerOperation ==
    \A s \in Slots :
        /\ req[s].appended <= 1
        /\ (Succeeded(s) /\ req[s].op \in Viewed) =>
              /\ req[s].appended = 1
              /\ req[s].entry # None
              /\ req[s].entry[1].action = Tag(req[s].op)
              /\ req[s].entry[1].videoId = ActedOn(req[s])
              /\ InLog(req[s].entry[1])

(* C6, amended.  Every such operation calls logEvent once, with its action *)
(* tag and the videoId it acted on: that appends exactly one entry when    *)
(* the Event Log persists it and none when persistence fails; no operation *)
(* appends two.                                                            *)
C6_OneEntryUnlessLogFails ==
    \A s \in Slots :
        /\ req[s].appended <= 1
        /\ (Succeeded(s) /\ req[s].op \in Viewed) =>
              /\ req[s].entry # None
              /\ req[s].entry[1].action = Tag(req[s].op)
              /\ req[s].entry[1].videoId = ActedOn(req[s])
              /\ req[s].appended = IF req[s].logFailed THEN 0 ELSE 1
              /\ ~req[s].logFailed => InLog(req[s].entry[1])

\* An update of a stored note succeeded and its entry is in the log.
C6_Witness ==
    \E s \in Slots :
        /\ Succeeded(s) /\ req[s].op = "putNote"
        /\ req[s].appended = 1 /\ InLog(req[s].entry[1])

(* C7.  A request whose Event Log write failed is answered as it is when   *)
(* the write succeeds, with 200 and the same body, and the write, failed   *)
(* or not, leaves the Note Store as the operation left it.                 *)
C7_LogFailureIsSwallowed ==
    /\ [](\A s \in Slots :
             (req[s].pc = "done" /\ req[s].logFailed) =>
                /\ req[s].status = 200
                /\ req[s].body = SuccessBody(req[s]))
    /\ [][\A s \in Slots : Logs(s) => notes' = notes]_vars

\* A delete removed its note, its log write failed, and it was answered.
C7_Witness ==
    \E s \in Slots :
        /\ req[s].pc = "done" /\ req[s].logFailed
        /\ req[s].op = "deleteNote" /\ req[s].id \notin DOMAIN notes

(* C8.  GET /api/logs/:videoId answers at most 50 entries of the log, all  *)
(* of the video, newest first, and no entry of the video it leaves out is  *)
(* later than one it returns.                                              *)
C8_LogsNewestFifty ==
    \A s \in Slots :
        (Succeeded(s) /\ req[s].op = "getLogs") =>
            LET q == req[s].list
                S == { i \in 1..req[s].seen : log[i].videoId = req[s].vid }
            IN  /\ Len(q) <= 50
                /\ Len(q) = IF Cardinality(S) < 50 THEN Cardinality(S) ELSE 50
                /\ Cardinality(Ids(q)) = Len(q)
                /\ \A k \in 1..Len(q) : q[k].id \in S /\ q[k] = log[q[k].id]
                /\ \A i, j \in 1..Len(q) : i < j => q[i].timestamp >= q[j].timestamp
                /\ \A i \in S \ Ids(q) :
                      \A k \in 1..Len(q) : q[k].timestamp >= log[i].timestamp

\* A query of a video with more than 50 entries was answered.
C8_Witness ==
    \E s \in Slots :
        /\ Succeeded(s) /\ req[s].op = "getLogs"
        /\ Len(req[s].list) = 50
        /\ Cardinality({ i \in 1..req[s].seen : log[i].videoId = req[s].vid }) > 50

(* C9.  The Event Log only grows: every step leaves each entry in place    *)
(* and as it was written.                                                  *)
C9_LogAppendOnly ==
    [][/\ Len(log') >= Len(log)
       /\ SubSeq(log', 1, Len(log)) = log]_vars

\* An entry was appended to a log that held entries, and the request that
\* appended it was answered.
C9_Witness ==
    /\ Len(log) > LogFill
    /\ \E s \in Slots : Succeeded(s) /\ req[s].appended = 1

(* C10.  A note just created has createdAt = updatedAt and the title,      *)
(* content and tags of the request (no tags when omitted), and a find of   *)
(* its video returns it so.                                                *)
C10_CreatedNoteAsGiven ==
    [][\A s \in Slots :
          (DbStep(s, "postNote") /\ req'[s].pc = "log") =>
             LET r == req[s]
                 n == notes'[r.id]
             IN  /\ n.createdAt = n.updatedAt
                 /\ n.videoId = r.vid
                 /\ n.title = r.title
                 /\ n.content = r.content
                 /\ n.tags = IF r.tags = None THEN <<>> ELSE r.tags[1]
                 /\ \A q \in FindNotesIn(notes', r.vid, None) :
                       \E k \in 1..Len(q) : q[k] = n]_vars

(* C11.  GET /api/video/:videoId answers 500 without calling upstream when *)
(* no API key is configured and 404 when upstream reports no item, and     *)
(* appends nothing in either case; it calls logEvent, once and with        *)
(* video_viewed, and returns the first item only when it succeeds.         *)
C11_VideoViewedOnlyOnSuccess ==
    /\ [](\A s \in Slots :
             req[s].op = "getVideo" =>
                LET r == req[s] IN
                /\ ~apiKey =>
                      /\ r.pc = "done" /\ r.status = 500
                      /\ r.body = ErrorBody("YouTube API key not configured")
                      /\ r.upstream = "not called"
                /\ r.upstream = "no items" =>
                      /\ r.pc = "done" /\ r.status = 404
                      /\ r.body = ErrorBody("Video not found")
                /\ (r.pc = "done" /\ r.status # 200) =>
                      r.entry = None /\ r.appended = 0
                /\ r.entry # None =>
                      /\ apiKey /\ r.upstream = "one item"
                      /\ r.entry[1].action = "video_viewed"
                      /\ r.entry[1].videoId = r.vid
                      /\ r.appended <= 1
                /\ (r.pc = "done" /\ r.status = 200) =>
                      /\ r.entry # None
                      /\ r.body = [item |-> r.vid]
                /\ r.appended = 1 => r.status = 200 /\ InLog(r.entry[1]))
    /\ [][\A s \in Slots :
             (Starts(s, "getVideo") /\ req'[s].pc = "done") => log' = log]_vars

\* Upstream reported no item: the request was answered 404 and the log is
\* as it was.
C11_Witness ==
    \E s \in Slots :
        /\ req[s].op = "getVideo" /\ req[s].upstream = "no items"
        /\ req[s].pc = "done" /\ req[s].status = 404
        /\ log = <<>>

Simulated == {"postComment", "deleteComment", "putVideo"}

\* The action tag each simulated route passes to logEvent.
SimTag(op) ==
    CASE op = "postComment"   -> "comment_added"
      [] op = "deleteComment" -> "comment_deleted"
      [] op = "putVideo"      -> "video_updated"

\* What a simulated write leaves alone at every step it takes: the Note
\* collection and the API key, which is all a later GET reads of the server.
SimulatedFrame ==
    \A s \in Slots :
        ((Starts(s, "postComment") \/ Starts(s, "deleteComment") \/ Starts(s, "putVideo"))
         \/ (Logs(s) /\ req[s].op \in Simulated)) =>
            /\ notes' = notes
            /\ nextId' = nextId
            /\ apiKey' = apiKey
            /\ req'[s].upstream = "not called"

\* What every simulated write has done when it is answered, but for the
\* number of entries it appended.
SimulatedAnswer(r) ==
    /\ r.status = 200
    /\ r.body = SuccessBody(r)
    /\ r.upstream = "not called"
    /\ r.entry # None
    /\ r.entry[1].action = SimTag(r.op)
    /\ r.entry[1].videoId = r.vid

(* C12.  Each simulated write answers 200 with a synthesized object, has   *)
(* appended exactly one entry (comment_added, comment_deleted,             *)
(* video_updated) for the path videoId, calls no upstream, and leaves the  *)
(* Note Store and all a later GET depends on unchanged.                    *)
C12_SimulatedWritesLogOnce ==
    /\ [](\A s \in Slots :
             (req[s].pc = "done" /\ req[s].op \in Simulated) =>
                /\ SimulatedAnswer(req[s])
                /\ req[s].appended = 1
                /\ InLog(req[s].entry[1]))
    /\ [][SimulatedFrame]_vars

(* C12, amended.  As C12, except that the one logEvent call appends one    *)
(* entry when the Event Log persists it and none when persistence fails.   *)
C12_SimulatedWritesLogOnceUnlessLogFails ==
    /\ [](\A s \in Slots :
             (req[s].pc = "done" /\ req[s].op \in Simulated) =>
                /\ SimulatedAnswer(req[s])
                /\ req[s].appended = IF req[s].logFailed THEN 0 ELSE 1
                /\ ~req[s].logFailed => InLog(req[s].entry[1]))
    /\ [][SimulatedFrame]_vars

\* A simulated comment delete was answered on a server that holds notes,
\* its entry in the log.
C12_Witness ==
    \E s \in Slots :
        /\ Succeeded(s) /\ req[s].op = "deleteComment"
        /\ req[s].appended = 1 /\ InLog(req[s].entry[1])
        /\ notes = TwoNotes

\* Request r is a note create or update with a blank title or content, a
\* video edit with a blank title, or a comment post with a blank text.
BlankInput(r) ==
    CASE r.op \in {"postNote", "putNote"} ->
            \/ r.title # None /\ Blank(r.title[1])
            \/ r.content # None /\ Blank(r.content[1])
      [] r.op \in {"putVideo", "postComment"} ->
            r.title # None /\ Blank(r.title[1])
      [] OTHER -> FALSE

BlankNote(n) ==
    \/ n.title # None /\ Blank(n.title[1])
    \/ n.content # None /\ Blank(n.content[1])

(* C13.  A note create or update with a blank title or content, a video    *)
(* edit with a blank title and a comment post with a blank text are        *)
(* rejected: none of them changes the Note Store or appends an entry.      *)
C13_BlankInputRejected ==
    /\ \A i \in DOMAIN notes : ~BlankNote(notes[i])
    /\ \A s \in Slots :
          BlankInput(req[s]) => req[s].appended = 0

(* C13, amended.  The dashboard validates its forms before it sends: every *)
(* request it sends carries a non-blank title and content (note), title    *)
(* (video) or text (comment), and a form it rejects sends nothing and      *)
(* changes nothing on the server.  The routes validate nothing: a create   *)
(* stores the title and content it was sent, an update writes them, and    *)
(* the simulated writes log theirs, blank or not.                          *)
C13_DashboardValidatesForms ==
    /\ [](\A s \in Slots : ui.calls[s] # None => ~BlankInput(req[s]))
    /\ [][(/\ ui.alert' # ui.alert
           /\ ui.alert' \in {"Please fill in title and content", "Title cannot be empty"})
             => UNCHANGED <<notes, nextId, log, req, started>>]_vars
    /\ [][\A s \in Slots :
             /\ (DbStep(s, "postNote") \/ DbStep(s, "putNote")) /\ req'[s].pc = "log" =>
                    /\ notes'[req[s].id].title = req[s].title
                    /\ notes'[req[s].id].content = req[s].content
             /\ (Starts(s, "putVideo") \/ Starts(s, "postComment")) =>
                    req'[s].pc = "log"]_vars

\* The dashboard rejected a form, and the store holds a blank note that a
\* request sent to the route directly created.
C13_Witness ==
    /\ ui.alert \in {"Please fill in title and content", "Title cannot be empty"}
    /\ \E i \in DOMAIN notes : BlankNote(notes[i])

\* The step in which the request of connection s reaches its logEvent call
\* is the one that applied its store change, and it leaves the log alone.
EffectThenLog(s) ==
    (req'[s].pc = "log" /\ req[s].pc # "log") =>
        LET r == req'[s] IN
        /\ log' = log
        /\ r.op = "postNote" =>
              /\ req[s].pc = "db"
              /\ notes' = Insert(notes, r.doc[1])
        /\ r.op = "putNote" =>
              /\ req[s].pc = "db"
              /\ r.id \in DOMAIN notes
              /\ notes' = [notes EXCEPT ![r.id] = r.doc[1]]
        /\ r.op = "deleteNote" =>
              /\ r.id \in DOMAIN notes
              /\ notes' = Remove(notes, r.id)

\* The log changes only by the entry of a request that was at its logEvent
\* call, in the step that answers it.
AppendThenAnswer ==
    log' # log =>
        \E s \in Slots :
            /\ req[s].pc = "log" /\ req'[s].pc = "done"
            /\ log' = Append(log, [req[s].entry[1] EXCEPT !.id = Len(log) + 1])

(* C14.  A request appends its entry after its store change is applied     *)
(* and before it is answered: a note_created, note_updated or note_deleted *)
(* entry is in the log only once the change is in the store, and a request *)
(* that fails with 404 or 500 appends nothing.                             *)
C14_AppendAfterEffect ==
    /\ [](\A s \in Slots :
             /\ (req[s].pc = "done" /\ req[s].status \in {404, 500}) =>
                    req[s].entry = None /\ req[s].appended = 0
             /\ (req[s].pc = "done" /\ req[s].entry # None) =>
                    req[s].appended = 1 \/ req[s].logFailed
             /\ req[s].pc # "done" => req[s].appended = 0)
    /\ [][AppendThenAnswer /\ \A s \in Slots : EffectThenLog(s)]_vars

\* A delete was answered: its note is gone and its entry is in the log.
C14_Witness ==
    \E s \in Slots :
        /\ Succeeded(s) /\ req[s].op = "deleteNote"
        /\ req[s].id \notin DOMAIN notes
        /\ \E k \in 1..Len(log) :
              log[k].action = "note_deleted" /\ log[k].details = [noteId |-> req[s].id]

(* C15.  Every request whose primary operation has completed is answered   *)
(* in the end, whether its Event Log append succeeded, failed or is still  *)
(* pending: the response does not wait on the append.                      *)
C15_AnsweredWithoutAppend ==
    \A s \in Slots : (req[s].pc = "log") ~> (req[s].pc = "done")

\* The note_deleted entries of note id in the log.
DeletedEntries(id) ==
    { k \in 1..Len(log) :
         log[k].action = "note_deleted" /\ log[k].details = [noteId |-> id] }

\* A delete of connection s found its note and removed it.
Deleted(s) ==
    req[s].op = "deleteNote" /\ (req[s].pc = "log" \/ Succeeded(s))

\* What racing deletes and updates of one note do, but for the number of
\* entries in the log: a delete answers 200 when it finds the note, which
\* it removes, and 404 when the note is gone; no two deletes in flight have
\* both removed the note; an update is applied and answered 200 when it
\* finds the note and answered 404 when the note is gone; a removed note
\* never comes back.
RacingDeletes ==
    /\ [](\A s, t \in Slots :
             (s # t /\ Deleted(s) /\ Deleted(t)) => req[s].id # req[t].id)
    /\ [][/\ \A s \in Slots :
               Starts(s, "deleteNote") =>
                  IF req'[s].id \in DOMAIN notes
                  THEN /\ req'[s].pc = "log"
                       /\ notes' = Remove(notes, req'[s].id)
                  ELSE /\ req'[s].pc = "done" /\ req'[s].status = 404
                       /\ notes' = notes /\ log' = log
          /\ \A s \in Slots :
               DbStep(s, "putNote") =>
                  IF req[s].id \in DOMAIN notes
                  THEN /\ req'[s].pc = "log"
                       /\ DOMAIN notes' = DOMAIN notes
                  ELSE /\ req'[s].pc = "done" /\ req'[s].status = 404
                       /\ notes' = notes /\ log' = log
          /\ \A i \in 1..(nextId - 1) :
               i \notin DOMAIN notes => i \notin DOMAIN notes']_vars

(* C16.  Of the deletes racing on one note exactly one answers 200, the    *)
(* others 404, and exactly one note_deleted entry is appended for the      *)
(* note; an update racing with them answers 200 when applied before the    *)
(* removal and 404 after it, and never brings the note back.               *)
C16_OneDeleteWins ==
    /\ RacingDeletes
    /\ [](\A s \in Slots :
             (Succeeded(s) /\ req[s].op = "deleteNote") =>
                Cardinality(DeletedEntries(req[s].id)) = 1)

(* C16, amended.  As C16, except that at most one note_deleted entry is    *)
(* appended for the note: exactly one when the Event Log persists it, none *)
(* when persistence fails.                                                 *)
C16_OneDeleteWinsLogsAtMostOnce ==
    /\ RacingDeletes
    /\ [](/\ \A i \in 1..(nextId - 1) : Cardinality(DeletedEntries(i)) <= 1
          /\ \A s \in Slots :
                (Succeeded(s) /\ req[s].op = "deleteNote") =>
                   Cardinality(DeletedEntries(req[s].id)) =
                      IF req[s].logFailed THEN 0 ELSE 1)

\* Two deletes of one note in flight together: one removed it, the other
\* was answered 404.
C16_Witness ==
    \E s, t \in Slots :
        /\ s # t /\ req[s].id = req[t].id
        /\ req[s].op = "deleteNote" /\ req[s].pc = "log"
        /\ req[t].op = "deleteNote" /\ req[t].pc = "done" /\ req[t].status = 404

\* No notes request of the dashboard is outstanding.
AllSettled ==
    /\ ui.todo = None
    /\ \A s \in Slots : ui.calls[s] = None

(* C17.  The debounce leaves at most one timer pending, and once every     *)
(* outstanding notes request has completed the dashboard shows the result  *)
(* of the notes request it issued last: the response of an older request   *)
(* does not replace that of a newer one.                                   *)
C17_LatestNotesRequestWins ==
    /\ Cardinality(ui.timers) <= 1
    /\ (AllSettled /\ ui.issued > 0) =>
          /\ ui.latest # None
          /\ ui.notes = ui.latest[1]

====
